---- MODULE Spec2Model ----
(***************************************************************************)
(* Model of imprint's driver (src/imprint/driver.py): the calibration      *)
(* index rule, the Clopper-Pearson bound, the K-grouped and sub-batched    *)
(* Driver.validate / Driver.calibrate, the K-grouped Driver.stats, and the *)
(* module-level validate / calibrate with their _setup step.               *)
(*                                                                         *)
(* Real numbers are modelled exactly: a level alpha is the rational        *)
(* n / AlphaDen and is carried as its numerator n; delta is n / DeltaDen.  *)
(* Floating-point values that the driver only passes through (the inverse  *)
(* incomplete beta function, the forward bound) are carried as terms.      *)
(***************************************************************************)
EXTENDS Integers, Sequences, FiniteSets, TLC

VARIABLES
    op,        \* the operation that ran last ("none" before any call)
    args,      \* the arguments of that call
    out,       \* what the call returned, or that it raised
    simCalls,  \* the sim_batch calls the call made, in order
    warned,    \* whether the call issued the pruning warning
    g,         \* the caller's grid object (its dataframe)
    g0,        \* the caller's grid as it was when the call was made
    pc,        \* "idle", "running" (inside a Driver call) or "done"
    work       \* the loop state of the running Driver call

vars == <<op, args, out, simCalls, warned, g, g0, pc, work>>

----------------------------------------------------------------------------
(* Bounds of the model *)

\* most tiles in a dataframe handed to the Driver
MaxTiles == 3
\* largest per-tile simulation count in a dataframe handed to the Driver
MaxK == 2
\* largest tile_batch_size tried
MaxBatch == 2
\* levels alpha are the multiples of 1 / AlphaDen
AlphaDen == 4
\* failure tolerances delta are the multiples of 1 / DeltaDen inside (0, 1)
DeltaDen == 3
\* largest K the two pure functions are applied to
MaxFnK == 6
\* most tiles in a grid handed to the module-level validate / calibrate
MaxGridTiles == 2

\* driver.py line 179
default_K == 16384
\* driver.py lines 218 and 260: the default tile_batch_size
default_tile_batch_size == 64

----------------------------------------------------------------------------
(* Values *)

Min(a, b) == IF a < b THEN a ELSE b
Max(a, b) == IF a > b THEN a ELSE b

\* Python's None, for the optional K argument
None == -1

\* A floating-point value: an exact number num, not-a-number, or the term
\* betaincinv(a, b, pnum / pden) of the inverse incomplete beta function.
Num(n) == [kind |-> "num", a |-> n, b |-> 0, pnum |-> 0, pden |-> 1]
NaN == [kind |-> "nan", a |-> 0, b |-> 0, pnum |-> 0, pden |-> 1]

RECURSIVE Gcd(_, _)
Gcd(a, b) == IF b = 0 THEN a ELSE Gcd(b, a % b)

\* The quotient n / d of two non-negative integers, in lowest terms; 0 / 0 is
\* not-a-number and n / 0 is infinite, as in jnp.
Quot(n, d) ==
    IF d = 0
    THEN IF n = 0 THEN NaN
         ELSE [kind |-> "inf", a |-> 0, b |-> 0, pnum |-> 0, pden |-> 1]
    ELSE [kind |-> "quot", a |-> n \div Gcd(n, d), b |-> d \div Gcd(n, d),
          pnum |-> 0, pden |-> 1]

----------------------------------------------------------------------------
(* clopper_pearson *)

\* numpyro's betaincinv(a, b, p): not-a-number outside its domain a, b > 0
\* ("If typeI_sum == K, we get nan"), the quantile otherwise.
betaincinv(a, b, pnum, pden) ==
    IF a <= 0 \/ b <= 0
    THEN NaN
    ELSE [kind |-> "betaincinv", a |-> a, b |-> b, pnum |-> pnum, pden |-> pden]

isnan(x) == x.kind = "nan"

\* mutant: the not-a-number result is passed on
clopper_pearson_keeps_nan(tie_sum, K, delta) ==
    betaincinv(tie_sum + 1, K - tie_sum, DeltaDen - delta, DeltaDen)

\* delta is the numerator of delta / DeltaDen
clopper_pearson(tie_sum, K, delta) ==
    LET tie_cp_bound2 == betaincinv(tie_sum + 1, K - tie_sum, DeltaDen - delta, DeltaDen)
    IN  IF isnan(tie_cp_bound2) THEN Num(0) ELSE tie_cp_bound2

----------------------------------------------------------------------------
(* _calibration_index *)

\* mutant: the level is taken by absolute value instead of clamped at 0
CalibrationIndexAbs(K, alpha) ==
    Max((((K + 1) * (IF alpha < 0 THEN -alpha ELSE alpha)) \div AlphaDen) - 1, 0)

\* mutant: the 1 is not subtracted
CalibrationIndexNoMinus(K, alpha) ==
    Max(((K + 1) * Max(alpha, 0)) \div AlphaDen, 0)

\* alpha is the numerator of alpha / AlphaDen; floor((K+1) * max(alpha, 0)) is
\* the integer quotient of (K+1) * max(alpha, 0) by AlphaDen
_calibration_index(K, alpha) ==
    Max((((K + 1) * Max(alpha, 0)) \div AlphaDen) - 1, 0)

----------------------------------------------------------------------------
(* The two pure functions applied to drawn inputs *)

NoOut == [kind |-> "none", value |-> Num(0), rows |-> <<>>]
Value(v) == [kind |-> "value", value |-> v, rows |-> <<>>]
NoGrid == [hasK |-> TRUE, rows |-> <<>>]

\* levels tried: from below 0 to above 1
Alphas == (-AlphaDen) .. (2 * AlphaDen)
Deltas == 1 .. (DeltaDen - 1)

InitFn ==
    /\ op = "none"
    /\ args = [K |-> None]
    /\ out = NoOut
    /\ simCalls = <<>>
    /\ warned = FALSE
    /\ g = NoGrid
    /\ g0 = NoGrid
    /\ pc = "idle"
    /\ work = [df |-> <<>>]

CalibrationIndexCall ==
    \E K \in 1..MaxFnK, alpha \in Alphas :
        /\ op' = "_calibration_index"
        /\ args' = [K |-> K, alpha |-> alpha]
        /\ out' = Value(Num(_calibration_index(K, alpha)))
        /\ UNCHANGED <<simCalls, warned, g, g0, pc, work>>

ClopperPearsonCall ==
    \E K \in 1..MaxFnK, delta \in Deltas :
        \E tie_sum \in 0..K :
            /\ op' = "clopper_pearson"
            /\ args' = [K |-> K, tie_sum |-> tie_sum, delta |-> delta]
            /\ out' = Value(clopper_pearson(tie_sum, K, delta))
            /\ UNCHANGED <<simCalls, warned, g, g0, pc, work>>

NextFn == CalibrationIndexCall \/ ClopperPearsonCall

SpecFn == InitFn /\ [][NextFn]_vars

----------------------------------------------------------------------------
(* Tiles, dataframes and the simulation model *)

\* A dataframe row is a tile: [id, theta, null_truth, radii, active, K], id
\* being its index label. A grid is [hasK, rows]: hasK says whether the
\* dataframe has a K column (the K field of its rows means nothing without).
Ids(rows) == [i \in 1..Len(rows) |-> rows[i].id]
IdSet(rows) == {rows[i].id : i \in 1..Len(rows)}
SeqRange(s) == {s[i] : i \in 1..Len(s)}

\* the parameter points tried: theta, its null hypothesis flag, and the
\* radius from which the vertices of the tile are built
Profiles ==
    { [theta |-> 0, null_truth |-> TRUE, radii |-> 0],
      [theta |-> 1, null_truth |-> FALSE, radii |-> 1] }

\* statistics are the integers 0 .. StatRange-1
StatRange == 3

\* The j-th simulated statistic of a tile: it depends on theta and null_truth
\* alone, as the interface requires of sim_batch (the seed offset is always 0,
\* and the draws of a tile are a prefix of the model's fixed samples).
StatVal(tile, j) ==
    (tile.theta + 2 * j + (IF tile.null_truth THEN 0 ELSE 1)) % StatRange

\* A simulation model: well behaved, or returning at its badCall-th sim_batch
\* call a matrix with dRows more rows and dCols more columns than asked.
GoodModel == [badCall |-> 0, dRows |-> 0, dCols |-> 0]
FaultyModels ==
    { [badCall |-> 1, dRows |-> -1, dCols |-> 0],
      [badCall |-> 1, dRows |-> 1, dCols |-> 0],
      [badCall |-> 1, dRows |-> 0, dCols |-> -1],
      [badCall |-> 1, dRows |-> 0, dCols |-> 1],
      [badCall |-> 2, dRows |-> -1, dCols |-> 0],
      [badCall |-> 2, dRows |-> 0, dCols |-> 1] }
Models == {GoodModel} \cup FaultyModels

\* sim_batch(0, K, theta, null_truth), the callNo-th call made to the model.
\* The matrix returned is [nrows, ncols, src]: its entry (i, j) is the j-th
\* statistic of the tile src[i].
sim_batch(model, callNo, K, batch) ==
    LET bad == callNo = model.badCall
        nrows == Len(batch) + (IF bad THEN model.dRows ELSE 0)
        ncols == K + (IF bad THEN model.dCols ELSE 0)
    IN  [nrows |-> nrows, ncols |-> ncols,
         src |-> [i \in 1..nrows |-> batch[Min(i, Len(batch))]]]

StatAt(stats, i, j) == StatVal(stats.src[i], j)

\* mutant: only the number of tiles is checked
CheckStatsTilesOnly(stats, K, theta) ==
    stats.nrows = Len(theta)

\* TRUE when _check_stats returns, FALSE when it raises ValueError
_check_stats(stats, K, theta) ==
    /\ stats.nrows = Len(theta)
    /\ stats.ncols = K

\* jnp.sort(stats, axis=-1), row i, 0-based position pos: the value v with
\* at most pos statistics of the row below it and more than pos not above it
SortedAt(stats, i, pos) ==
    LET cols == 1..stats.ncols
        Below(v) == Cardinality({j \in cols : StatAt(stats, i, j) < v})
        UpTo(v) == Cardinality({j \in cols : StatAt(stats, i, j) <= v})
    IN  CHOOSE v \in {StatAt(stats, i, j) : j \in cols} :
            Below(v) <= pos /\ pos < UpTo(v)

\* x[i] for a jax array x of n elements and a 0-based traced index i: an
\* index out of bounds is clamped into 0 .. n-1
JaxIndex(n, i) == Min(Max(i, 0), n - 1)

\* the bound family (imprint.bound): backward shrinks the level by the
\* tile's radius, forward is kept as a term
backward_bound(alpha, tile) == alpha - tile.radii
forward_bound(cp, tile) ==
    [kind |-> "forward", cp |-> cp, theta |-> tile.theta, radii |-> tile.radii]

----------------------------------------------------------------------------
(* Driver.validate, Driver.calibrate and Driver.stats *)

\* mutant: the statistics below lam are counted over the whole sub-batch
TieSumWholeBatch(stats, i, lam) ==
    Cardinality({<<r, j>> \in (1..stats.nrows) \X (1..stats.ncols) :
                    StatAt(stats, r, j) < lam})

\* mutant: a statistic equal to lam is counted too
TieSumUpTo(stats, i, lam) ==
    Cardinality({j \in 1..stats.ncols : StatAt(stats, i, j) <= lam})

\* jnp.sum(stats < lam, axis=-1), row i
TieSum(stats, i, lam) ==
    Cardinality({j \in 1..stats.ncols : StatAt(stats, i, j) < lam})

\* What one call of a _batched closure gives: whether it raised, the per-tile
\* results, and the sim_batch call it made (with the shape it got back).
SimCall(K, batch, stats) ==
    [K |-> K, ids |-> Ids(batch), nrows |-> stats.nrows, ncols |-> stats.ncols]

\* validate's _batched; p holds lam and delta. The vectorised forward bound needs
\* as many bounds as tiles.
ValidateBatched(p, model, callNo, K, batch) ==
    LET stats == sim_batch(model, callNo, K, batch)
        tie_sum == [i \in 1..stats.nrows |-> TieSum(stats, i, p.lam)]
        Row(i) ==
            LET tie_cp_bound == clopper_pearson(tie_sum[i], K, p.delta)
            IN  [tie_sum |-> tie_sum[i],
                 tie_est |-> Quot(tie_sum[i], K),
                 tie_cp_bound |-> tie_cp_bound,
                 tie_bound |-> forward_bound(tie_cp_bound, batch[i])]
    IN  IF ~_check_stats(stats, K, batch) \/ stats.nrows # Len(batch)
        THEN [raised |-> TRUE, rows |-> <<>>, call |-> SimCall(K, batch, stats)]
        ELSE [raised |-> FALSE, rows |-> [i \in 1..stats.nrows |-> Row(i)],
              call |-> SimCall(K, batch, stats)]

\* mutant: the statistics are indexed as simulated, not sorted
CalcThresholdUnsorted(stats, i, K, alpha) ==
    StatAt(stats, i, JaxIndex(stats.ncols, _calibration_index(stats.ncols, alpha)) + 1)

\* calc_calibration_threshold on row i of the sorted statistics, whose
\* length is sorted_stats.shape[0]; sorted_order is arange(K)
calc_calibration_threshold(stats, i, K, alpha) ==
    LET idx == _calibration_index(stats.ncols, alpha)
        sorted_order_idx == JaxIndex(K, idx)
    IN  SortedAt(stats, i, JaxIndex(stats.ncols, sorted_order_idx))

\* calibrate's _batched; p holds alpha. The vectorised threshold rule needs as
\* many levels as rows, and a row to index must not be empty.
CalibrateBatched(p, model, callNo, K, batch) ==
    LET stats == sim_batch(model, callNo, K, batch)
        alpha0 == [i \in 1..Len(batch) |-> backward_bound(p.alpha, batch[i])]
        Row(i) == [lams |-> calc_calibration_threshold(stats, i, K, alpha0[i]),
                   alpha0 |-> alpha0[i]]
    IN  IF \/ ~_check_stats(stats, K, batch)
           \/ stats.nrows # Len(batch)
           \/ stats.ncols < 1 \/ K < 1
        THEN [raised |-> TRUE, rows |-> <<>>, call |-> SimCall(K, batch, stats)]
        ELSE [raised |-> FALSE, rows |-> [i \in 1..stats.nrows |-> Row(i)],
              call |-> SimCall(K, batch, stats)]

\* The f of Driver.stats on a K-group: one sim_batch call on the whole group,
\* _check_stats, and the matrix itself as the result.
StatsF(model, callNo, K, K_df) ==
    LET stats == sim_batch(model, callNo, K, K_df)
    IN  IF ~_check_stats(stats, K, K_df)
        THEN [raised |-> TRUE, rows |-> <<>>, call |-> SimCall(K, K_df, stats)]
        ELSE [raised |-> FALSE, rows |-> <<stats>>, call |-> SimCall(K, K_df, stats)]

Batched(kind, p, model, callNo, K, batch) ==
    IF kind = "validate"
    THEN ValidateBatched(p, model, callNo, K, batch)
    ELSE IF kind = "calibrate"
    THEN CalibrateBatched(p, model, callNo, K, batch)
    ELSE StatsF(model, callNo, K, batch)

\* batching.batch(_batched, tile_batch_size, in_axes=(None, 0, 0, 0)): the
\* rows of a K-group go through _batched in chunks of at most
\* tile_batch_size, one after the other from the first row on; the chunk that
\* starts at position start of n rows ends at ChunkEnd.
ChunkEnd(start, tile_batch_size, n) == Min(start + tile_batch_size - 1, n)

\* mutant: Driver.stats hands its groups to sim_batch in sub-batches
GroupEndBatched(start, tile_batch_size, n) == Min(start + tile_batch_size - 1, n)

\* Driver.stats does no batching: the rows of a K-group that go into its one
\* sim_batch call end with the last of the n rows of the group
GroupEnd(start, tile_batch_size, n) == n

\* df.groupby("K"): the rows of one group, in the row order of df, and the
\* group taken first among those with keys Ks
GroupRows(df, K) == SelectSeq(df, LAMBDA row : row.K = K)
FirstK(Ks) == CHOOSE k \in Ks : \A k2 \in Ks : k <= k2

\* the rows of frame that carry the labels from position i on, label by label
RECURSIVE LocFrom(_, _, _)
LocFrom(frame, labels, i) ==
    IF i > Len(labels)
    THEN <<>>
    ELSE SelectSeq(frame, LAMBDA row : row.id = labels[i])
            \o LocFrom(frame, labels, i + 1)

\* mutant: the concatenated groups are returned as they are
LocNone(frame, labels) == frame

\* frame.loc[labels]: for each label in turn, the rows of frame that carry it
Loc(frame, labels) == LocFrom(frame, labels, 1)

\* out["K"] = df["K"]: aligned on the index label
KOfLabel(df, id) == df[CHOOSE i \in 1..Len(df) : df[i].id = id].K

Raised == [kind |-> "raised", value |-> Num(0), rows |-> <<>>]
Table(rows) == [kind |-> "table", value |-> Num(0), rows |-> rows]

\* The end of Driver.validate: frames are the concatenated group dataframes.
ValidateTable(df, frames) ==
    LET located == Loc(frames, Ids(df))
    IN  Table([i \in 1..Len(located) |->
                  [id |-> located[i].id,
                   tie_sum |-> located[i].res.tie_sum,
                   tie_est |-> located[i].res.tie_est,
                   tie_cp_bound |-> located[i].res.tie_cp_bound,
                   tie_bound |-> located[i].res.tie_bound,
                   K |-> KOfLabel(df, located[i].id)]])

\* The end of Driver.calibrate. The idx column is computed from the K column
\* of df and the alpha0 column of out, position by position (which needs as
\* many rows in out as in df).
CalibrateTable(df, frames) ==
    LET located == Loc(frames, Ids(df))
    IN  IF Len(located) # Len(df)
        THEN Raised
        ELSE Table([i \in 1..Len(located) |->
                      [id |-> located[i].id,
                       lams |-> located[i].res.lams,
                       alpha0 |-> located[i].res.alpha0,
                       idx |-> _calibration_index(df[i].K, located[i].res.alpha0),
                       K |-> KOfLabel(df, located[i].id)]])

\* The end of Driver.stats: out is a list of matrices, one per K-group, and
\* pd.concat takes Series and DataFrame objects only, so that it raises
\* TypeError on the arrays of a simulation model.
StatsConcat(df, out_list) == Raised

NoWork == [df |-> <<>>, Ks |-> {}, K |-> 0, start |-> 1, results |-> <<>>,
           frames |-> <<>>]

\* Entering _groupby_apply_K(df, f): the first group is about to be handed
\* to f, its first sub-batch to _batched.
StartWork(df) ==
    LET Ks == {df[i].K : i \in 1..Len(df)}
    IN  [df |-> df, Ks |-> Ks \ {FirstK(Ks)}, K |-> FirstK(Ks), start |-> 1,
         results |-> <<>>, frames |-> <<>>]

\* One sub-batch of the running call: the chunk goes through _batched. An
\* exception ends the call. Else the results are appended to those of the
\* group; after the last chunk of the group they become a dataframe indexed
\* like the group (which raises unless there is one result per row), which
\* is appended to out; after the last group the table is assembled.
\* Gives [pc, out, work, call].
SubBatch(kind, a, w, callNo) ==
    LET K_df == GroupRows(w.df, w.K)
        end == IF kind = "stats"
               THEN GroupEnd(w.start, a.tile_batch_size, Len(K_df))
               ELSE ChunkEnd(w.start, a.tile_batch_size, Len(K_df))
        b == Batched(kind, a, a.model, callNo, w.K, SubSeq(K_df, w.start, end))
        results == w.results \o b.rows
        frames == IF kind = "stats"
                  THEN w.frames \o results
                  ELSE w.frames
                        \o [i \in 1..Len(K_df) |-> [id |-> K_df[i].id, res |-> results[i]]]
    IN  IF b.raised
        THEN [pc |-> "done", out |-> Raised, work |-> NoWork, call |-> b.call]
        ELSE IF end < Len(K_df)
        THEN [pc |-> "running", out |-> NoOut,
              work |-> [w EXCEPT !.start = end + 1, !.results = results],
              call |-> b.call]
        ELSE IF kind # "stats" /\ Len(results) # Len(K_df)
        THEN [pc |-> "done", out |-> Raised, work |-> NoWork, call |-> b.call]
        ELSE IF w.Ks # {}
        THEN [pc |-> "running", out |-> NoOut,
              work |-> [w EXCEPT !.Ks = w.Ks \ {FirstK(w.Ks)}, !.K = FirstK(w.Ks),
                                 !.start = 1, !.results = <<>>, !.frames = frames],
              call |-> b.call]
        ELSE [pc |-> "done",
              out |-> IF kind = "validate"
                      THEN ValidateTable(w.df, frames)
                      ELSE IF kind = "calibrate"
                      THEN CalibrateTable(w.df, frames)
                      ELSE StatsConcat(w.df, frames),
              work |-> NoWork, call |-> b.call]

Kind(o) ==
    IF o \in {"Driver.validate", "validate"} THEN "validate"
    ELSE IF o \in {"Driver.calibrate", "calibrate"} THEN "calibrate"
    ELSE "stats"

\* the next sub-batch of the call that is running
BatchStep ==
    /\ pc = "running"
    /\ \E nxt \in {SubBatch(Kind(op), args, work, Len(simCalls) + 1)} :
          /\ pc' = nxt.pc
          /\ out' = nxt.out
          /\ work' = nxt.work
          /\ simCalls' = Append(simCalls, nxt.call)
    /\ UNCHANGED <<op, args, warned, g, g0>>

\* the caller is done with the result of a call
Return ==
    /\ pc = "done"
    /\ pc' = "idle"
    /\ op' = "none"
    /\ args' = [K |-> None]
    /\ out' = NoOut
    /\ simCalls' = <<>>
    /\ warned' = FALSE
    /\ g0' = g
    /\ UNCHANGED <<g, work>>

----------------------------------------------------------------------------
(* The Driver called on dataframes that have a K column of positive counts *)

\* the index labels of a dataframe of n rows: 1 .. n in increasing or in
\* decreasing order
Label(i, n, increasing) == IF increasing THEN i ELSE n + 1 - i

TileRows(n, Ks) ==
    { [i \in 1..n |-> [id |-> Label(i, n, inc), theta |-> pf[i].theta,
                       null_truth |-> pf[i].null_truth, radii |-> pf[i].radii,
                       active |-> TRUE, K |-> ks[i]]] :
        pf \in [1..n -> Profiles], ks \in [1..n -> Ks], inc \in BOOLEAN }

DriverFrames == UNION {TileRows(n, 1..MaxK) : n \in 1..MaxTiles}

\* rejection thresholds and levels tried
Lams == 1..2
DriverAlphas == 0..(AlphaDen + 2)

Init ==
    /\ pc = "idle"
    /\ op = "none"
    /\ args = [K |-> None]
    /\ out = NoOut
    /\ simCalls = <<>>
    /\ warned = FALSE
    /\ work = NoWork
    /\ \E rows \in DriverFrames : g = [hasK |-> TRUE, rows |-> rows]
    /\ g0 = g

\* Driver(model, tile_batch_size=...).validate(df, lam, delta=delta)
DriverValidateCall ==
    /\ pc = "idle"
    /\ \E model \in Models, tile_batch_size \in 1..MaxBatch, lam \in Lams,
          delta \in {1} :
          args' = [model |-> model, tile_batch_size |-> tile_batch_size,
                   lam |-> lam, delta |-> delta]
    /\ op' = "Driver.validate"
    /\ pc' = "running"
    /\ work' = StartWork(g.rows)
    /\ g0' = g
    /\ UNCHANGED <<out, simCalls, warned, g>>

\* Driver(model, tile_batch_size=...).calibrate(df, alpha)
DriverCalibrateCall ==
    /\ pc = "idle"
    /\ \E model \in Models, tile_batch_size \in 1..MaxBatch,
          alpha \in DriverAlphas :
          args' = [model |-> model, tile_batch_size |-> tile_batch_size,
                   alpha |-> alpha]
    /\ op' = "Driver.calibrate"
    /\ pc' = "running"
    /\ work' = StartWork(g.rows)
    /\ g0' = g
    /\ UNCHANGED <<out, simCalls, warned, g>>

\* Driver(model, tile_batch_size=...).stats(df)
DriverStatsCall ==
    /\ pc = "idle"
    /\ \E model \in Models, tile_batch_size \in 1..MaxBatch :
          args' = [model |-> model, tile_batch_size |-> tile_batch_size]
    /\ op' = "Driver.stats"
    /\ pc' = "running"
    /\ work' = StartWork(g.rows)
    /\ g0' = g
    /\ UNCHANGED <<out, simCalls, warned, g>>

Next ==
    \/ DriverValidateCall
    \/ DriverCalibrateCall
    \/ DriverStatsCall
    \/ BatchStep
    \/ Return

Spec == Init /\ [][Next]_vars

----------------------------------------------------------------------------
(* The module-level validate and calibrate, with _setup *)

\* Grid.prune_inactive(): a new grid holding the active tiles
prune_inactive(grid) ==
    [hasK |-> grid.hasK, rows |-> SelectSeq(grid.rows, LAMBDA row : row.active)]

\* g.df["K"] = K
AssignK(rows, K) ==
    [i \in 1..Len(rows) |-> [rows[i] EXCEPT !.K = K]]

\* g.df.loc[g.df["K"] == 0, "K"] = default_K
ReplaceZeroK(rows) ==
    [i \in 1..Len(rows) |->
        [rows[i] EXCEPT !.K = IF rows[i].K = 0 THEN default_K ELSE rows[i].K]]

\* mutant: counts of 0 stay as they are
ResolveKKeepsZero(grid, K) ==
    IF K # None
    THEN [hasK |-> TRUE, rows |-> AssignK(grid.rows, K)]
    ELSE IF ~grid.hasK
         THEN [hasK |-> TRUE, rows |-> AssignK(grid.rows, default_K)]
         ELSE grid

\* the assignments _setup makes to g.df["K"]
ResolveK(grid, K) ==
    IF K # None
    THEN [hasK |-> TRUE, rows |-> AssignK(grid.rows, K)]
    ELSE LET withK == IF ~grid.hasK
                      THEN AssignK(grid.rows, default_K)
                      ELSE grid.rows
         IN  [hasK |-> TRUE, rows |-> ReplaceZeroK(withK)]

\* _setup(model_type, g, model_seed, K, model_kwargs): whether it warned, the
\* grid it returns, and the caller's grid afterwards. g_pruned is only used
\* to decide between warning and copying: when tiles would be pruned, g stays
\* the caller's object and the assignments to g.df["K"] are made on it; else
\* they are made on a deep copy.
_setup(grid, K) ==
    LET g_pruned == prune_inactive(grid)
        pruning == Len(g_pruned.rows) < Len(grid.rows)
        resolved == ResolveK(grid, K)
    IN  [warned |-> pruning,
         g |-> resolved,
         caller |-> IF pruning THEN resolved ELSE grid]

\* the grids tried: the counts of a K column, or no K column at all
GridKs == {0, 2}
KArgs == {None, 3}

GridRows(n, Ks) ==
    { [i \in 1..n |-> [id |-> Label(i, n, FALSE), theta |-> i % 2,
                       null_truth |-> (i % 2 = 0), radii |-> i % 2,
                       active |-> act[i], K |-> ks[i]]] :
        act \in [1..n -> BOOLEAN], ks \in [1..n -> Ks] }

Grids ==
    UNION { {[hasK |-> TRUE, rows |-> rows] : rows \in GridRows(n, GridKs)}
            \cup {[hasK |-> FALSE, rows |-> rows] : rows \in GridRows(n, {0})} :
            n \in 1..MaxGridTiles }

InitApi ==
    /\ pc = "idle"
    /\ op = "none"
    /\ args = [K |-> None]
    /\ out = NoOut
    /\ simCalls = <<>>
    /\ warned = FALSE
    /\ work = NoWork
    /\ g \in Grids
    /\ g0 = g

\* validate(model_type, g=g, lam=lam, delta=delta, K=K, tile_batch_size=...)
\* up to the call of driver.validate(g.df, lam, delta=delta)
ValidateCall ==
    /\ pc = "idle"
    /\ \E K \in KArgs, tile_batch_size \in {1, default_tile_batch_size},
          lam \in {1}, delta \in {1} :
          /\ args' = [K |-> K, model |-> GoodModel,
                      tile_batch_size |-> tile_batch_size,
                      lam |-> lam, delta |-> delta]
          /\ \E setup \in {_setup(g, K)} :
                /\ warned' = setup.warned
                /\ g' = setup.caller
                /\ work' = StartWork(setup.g.rows)
    /\ op' = "validate"
    /\ pc' = "running"
    /\ g0' = g
    /\ UNCHANGED <<out, simCalls>>

\* calibrate(model_type, g=g, alpha=alpha, K=K, tile_batch_size=...) up to
\* the call of driver.calibrate(g.df, alpha)
CalibrateCall ==
    /\ pc = "idle"
    /\ \E K \in KArgs, tile_batch_size \in {1, default_tile_batch_size},
          alpha \in {1} :
          /\ args' = [K |-> K, model |-> GoodModel,
                      tile_batch_size |-> tile_batch_size, alpha |-> alpha]
          /\ \E setup \in {_setup(g, K)} :
                /\ warned' = setup.warned
                /\ g' = setup.caller
                /\ work' = StartWork(setup.g.rows)
    /\ op' = "calibrate"
    /\ pc' = "running"
    /\ g0' = g
    /\ UNCHANGED <<out, simCalls>>

NextApi == ValidateCall \/ CalibrateCall \/ BatchStep \/ Return

SpecApi == InitApi /\ [][NextApi]_vars

----------------------------------------------------------------------------
(* Properties *)

DriverOps == {"Driver.validate", "Driver.calibrate"}
ApiOps == {"validate", "calibrate"}

\* the number of K-groups of a dataframe
GroupCount(rows) == Cardinality({rows[i].K : i \in 1..Len(rows)})

\* C1: the result table of Driver.validate and of Driver.calibrate has one
\* row per row of the input dataframe, and its index labels come in the
\* order of the input's, whatever the K-groups and sub-batches were.
C1_RowOrderPreserved ==
    (pc = "done" /\ op \in DriverOps /\ out.kind = "table")
        => /\ Len(out.rows) = Len(g0.rows)
           /\ \A i \in 1..Len(g0.rows) : out.rows[i].id = g0.rows[i].id

\* C1 witness: three tiles whose K column is 2, 1, 2, so that grouping by K
\* reorders them, processed one tile per sub-batch
C1_Witness ==
    /\ pc = "done" /\ op = "Driver.validate" /\ out.kind = "table"
    /\ args.tile_batch_size = 1
    /\ Len(g0.rows) = 3
    /\ g0.rows[1].K = 2 /\ g0.rows[2].K = 1 /\ g0.rows[3].K = 2
    /\ Len(simCalls) = 3

\* What the tile at row i of df gets when its whole K-group goes through
\* _batched in one pass.
OnePass(kind, a, df, i) ==
    LET K_df == GroupRows(df, df[i].K)
        pos == Cardinality({j \in 1..i : df[j].K = df[i].K})
    IN  Batched(kind, a, GoodModel, 1, df[i].K, K_df).rows[pos]

RowOf(id) == out.rows[CHOOSE i \in 1..Len(out.rows) : out.rows[i].id = id]

\* C2: with a well-behaved (deterministic per tile) simulation model, the
\* results a tile gets when its K-group is split into sub-batches of
\* tile_batch_size tiles equal those it gets when the whole K-group goes
\* through in one pass.
C2_BatchingTransparent ==
    (pc = "done" /\ op \in DriverOps /\ args.model = GoodModel)
        => /\ out.kind = "table"
           /\ \A i \in 1..Len(g0.rows) :
                LET one == OnePass(Kind(op), args, g0.rows, i)
                    row == RowOf(g0.rows[i].id)
                IN  IF op = "Driver.validate"
                    THEN /\ row.tie_sum = one.tie_sum
                         /\ row.tie_est = one.tie_est
                         /\ row.tie_cp_bound = one.tie_cp_bound
                         /\ row.tie_bound = one.tie_bound
                    ELSE /\ row.lams = one.lams
                         /\ row.alpha0 = one.alpha0

\* C2 witness: a K-group of several tiles was split into several sub-batches,
\* and some tile has statistics below the threshold
C2_Witness ==
    /\ pc = "done" /\ op = "Driver.validate" /\ args.model = GoodModel
    /\ out.kind = "table"
    /\ Len(simCalls) > GroupCount(g0.rows)
    /\ \E i \in 1..Len(out.rows) : out.rows[i].tie_sum > 0

BadShape(call) == call.nrows # Len(call.ids) \/ call.ncols # call.K

\* C3: when a sim_batch call returns a matrix that has not one row per tile
\* asked or not K columns, the call of Driver.validate / Driver.calibrate
\* raises at that sub-batch: no further sim_batch call is made and no table,
\* not even a partial one, is returned.
C3_ShapeMismatchAborts ==
    op \in DriverOps
        => \A c \in 1..Len(simCalls) :
              BadShape(simCalls[c])
                  => /\ pc = "done"
                     /\ out.kind = "raised"
                     /\ Len(out.rows) = 0
                     /\ c = Len(simCalls)

\* C3 witness: the second sub-batch of a calibrate call got a matrix with one
\* row too few, after a first sub-batch that went well
C3_Witness ==
    /\ pc = "done" /\ op = "Driver.calibrate"
    /\ Len(simCalls) = 2
    /\ ~BadShape(simCalls[1])
    /\ simCalls[2].nrows = Len(simCalls[2].ids) - 1
    /\ simCalls[2].ncols = simCalls[2].K
    /\ out.kind = "raised"

\* C4 as stated: for every K >= 1 and every alpha, idx(alpha) <= K - 1.
C4_IndexBelowK_AnyAlpha ==
    op = "_calibration_index" => out.value.a <= args.K - 1

\* C4 amended: for every K >= 1 and every alpha < 1, idx(alpha) <= K - 1
\* (for alpha >= 1 the index is at least K).
C4_IndexBelowK ==
    op = "_calibration_index"
        => /\ args.alpha < AlphaDen => out.value.a <= args.K - 1
           /\ args.alpha >= AlphaDen => out.value.a >= args.K

\* C4 witness: a level below 1 for which the index is K - 1, with K > 1
C4_Witness ==
    /\ op = "_calibration_index"
    /\ args.K > 1 /\ args.alpha < AlphaDen
    /\ out.value.a = args.K - 1

\* C5: for fixed K, idx(alpha) is non-decreasing in alpha, and it is 0 for
\* alpha = 0 and for every negative alpha.
C5_IndexMonotone ==
    op = "_calibration_index"
        => /\ \A alpha2 \in Alphas :
                alpha2 <= args.alpha
                    => _calibration_index(args.K, alpha2) <= out.value.a
           /\ args.alpha <= 0 => out.value.a = 0

\* C5 witness: a positive level whose index is positive, hence above the
\* index of every non-positive level
C5_Witness ==
    /\ op = "_calibration_index"
    /\ args.alpha > 0 /\ args.alpha < AlphaDen
    /\ out.value.a > 0
    /\ _calibration_index(args.K, -1) = 0

\* The 0-based position pos of the K statistics of a tile, sorted ascending,
\* holds v.
IsOrderStatistic(tile, K, pos, v) ==
    /\ \E j \in 1..K : StatVal(tile, j) = v
    /\ Cardinality({j \in 1..K : StatVal(tile, j) < v}) <= pos
    /\ pos < Cardinality({j \in 1..K : StatVal(tile, j) <= v})

\* C6 as stated: in every row of the table of Driver.calibrate, idx is a
\* position of the tile's K sorted statistics and lams is the statistic there.
C6_LamsAtIdx_AnyRow ==
    (pc = "done" /\ op = "Driver.calibrate" /\ out.kind = "table")
        => \A i \in 1..Len(out.rows) :
              /\ out.rows[i].idx \in 0..(out.rows[i].K - 1)
              /\ IsOrderStatistic(g0.rows[i], out.rows[i].K,
                                  out.rows[i].idx, out.rows[i].lams)

\* C6 amended: in every row whose alpha0 is below 1, idx is the calibration
\* index of the row's K and alpha0 and lams is the statistic at position idx
\* of the tile's K statistics sorted ascending; in a row whose alpha0 is 1 or
\* more, idx is K or more and lams is the largest statistic.
C6_LamsAtIdx ==
    (pc = "done" /\ op = "Driver.calibrate" /\ out.kind = "table")
        => \A i \in 1..Len(out.rows) :
              LET row == out.rows[i]
              IN  /\ row.K = g0.rows[i].K
                  /\ row.alpha0 < AlphaDen
                        => /\ row.idx \in 0..(row.K - 1)
                           /\ IsOrderStatistic(g0.rows[i], row.K, row.idx, row.lams)
                  /\ row.alpha0 >= AlphaDen
                        => /\ row.idx >= row.K
                           /\ IsOrderStatistic(g0.rows[i], row.K, row.K - 1, row.lams)

\* C6 witness: a row with 0 < alpha0 < 1 and idx > 0 whose lams is not the
\* first of the tile's statistics as simulated
C6_Witness ==
    /\ pc = "done" /\ op = "Driver.calibrate" /\ out.kind = "table"
    /\ \E i \in 1..Len(out.rows) :
          /\ out.rows[i].alpha0 > 0 /\ out.rows[i].alpha0 < AlphaDen
          /\ out.rows[i].idx > 0
          /\ out.rows[i].lams # StatVal(g0.rows[i], out.rows[i].idx + 1)

ActiveIds(grid) == IdSet(prune_inactive(grid).rows)

\* C7: validate and calibrate simulate the active tiles only, return a row
\* for each active tile and for no other, and warn exactly when the grid had
\* an inactive tile.
C7_InactiveTilesDropped ==
    op \in ApiOps
        => /\ \A c \in 1..Len(simCalls) :
                SeqRange(simCalls[c].ids) \subseteq ActiveIds(g0)
           /\ pc = "done"
                => /\ out.kind = "table"
                   /\ Ids(out.rows) = Ids(prune_inactive(g0).rows)
           /\ warned <=> (ActiveIds(g0) # IdSet(g0.rows))

\* C8: after validate or calibrate the caller's grid is what it was before
\* the call.
C8_CallerGridUnchanged ==
    op \in ApiOps => g = g0

\* the count a tile is to be simulated with when no K argument is given
ResolvedK(grid, id) ==
    LET row == grid.rows[CHOOSE i \in 1..Len(grid.rows) : grid.rows[i].id = id]
    IN  IF ~grid.hasK \/ row.K = 0 THEN default_K ELSE row.K

\* C9: called without a K argument, validate and calibrate simulate a tile
\* that has no K column or a K of 0 with default_K and any other tile with
\* its own K (which the K column of the result reports), so that every
\* sim_batch call is made with K >= 1.
C9_KResolved ==
    (op \in ApiOps /\ args.K = None)
        => /\ \A c \in 1..Len(simCalls) :
                /\ simCalls[c].K >= 1
                /\ \A id \in SeqRange(simCalls[c].ids) :
                      simCalls[c].K = ResolvedK(g0, id)
           /\ pc = "done"
                => /\ out.kind = "table"
                   /\ \A i \in 1..Len(out.rows) :
                        /\ out.rows[i].K = ResolvedK(g0, out.rows[i].id)
                        /\ \E c \in 1..Len(simCalls) :
                              out.rows[i].id \in SeqRange(simCalls[c].ids)

\* C9 witness: a grid with a K column holding a 0 and a 2, simulated in one
\* call with K = 2 and another with K = default_K
C9_Witness ==
    /\ pc = "done" /\ op = "validate" /\ args.K = None
    /\ g0.hasK
    /\ \E i, j \in 1..Len(g0.rows) : g0.rows[i].K = 0 /\ g0.rows[j].K = 2
    /\ \E c, d \in 1..Len(simCalls) :
          simCalls[c].K = 2 /\ simCalls[d].K = default_K

\* C10: clopper_pearson(K, K, delta) is 0, and for tie_sum < K it is the
\* value of betaincinv(tie_sum + 1, K - tie_sum, 1 - delta), which is a number.
C10_ClopperPearsonBoundary ==
    op = "clopper_pearson"
        => /\ args.tie_sum = args.K => out.value = Num(0)
           /\ args.tie_sum < args.K
                => /\ out.value = betaincinv(args.tie_sum + 1, args.K - args.tie_sum,
                                             DeltaDen - args.delta, DeltaDen)
                   /\ out.value.kind = "betaincinv"

\* C10 witness: every one of K > 1 statistics was below the threshold
C10_Witness ==
    /\ op = "clopper_pearson"
    /\ args.K > 1 /\ args.tie_sum = args.K
    /\ out.value = Num(0)

\* the row of the input dataframe that carries the index label id
TileOf(id) == g0.rows[CHOOSE i \in 1..Len(g0.rows) : g0.rows[i].id = id]

\* C11: in every row of the table of Driver.validate, tie_sum is the number
\* of the tile's K simulated statistics strictly below lam (one equal to lam
\* is not counted), an integer in 0 .. K, and tie_est is tie_sum / K for the
\* K of the row, which is the tile's own.
C11_TieSumCountsBelowLam ==
    (pc = "done" /\ op = "Driver.validate" /\ out.kind = "table")
        => \A i \in 1..Len(out.rows) :
              LET row == out.rows[i]
                  tile == TileOf(row.id)
              IN  /\ row.K = tile.K
                  /\ row.tie_sum
                        = Cardinality({j \in 1..row.K : StatVal(tile, j) < args.lam})
                  /\ row.tie_sum \in 0..row.K
                  /\ row.tie_est.kind = "quot"
                  /\ row.tie_est.a * row.K = row.tie_sum * row.tie_est.b

\* C11 witness: a tile with some but not all of its statistics below lam and
\* one equal to lam, in a dataframe of mixed K
C11_Witness ==
    /\ pc = "done" /\ op = "Driver.validate" /\ out.kind = "table"
    /\ GroupCount(g0.rows) > 1
    /\ \E i \in 1..Len(out.rows) :
          /\ out.rows[i].tie_sum > 0 /\ out.rows[i].tie_sum < out.rows[i].K
          /\ \E j \in 1..out.rows[i].K :
                StatVal(TileOf(out.rows[i].id), j) = args.lam

\* C12: Driver.stats calls sim_batch once for each distinct K of the
\* dataframe, on all the tiles of that K-group whatever tile_batch_size is,
\* and raises, making no further call, when a matrix returned has not one
\* row per tile of the group or not K columns.
C12_StatsOneCallPerK ==
    op = "Driver.stats"
        => /\ \A c \in 1..Len(simCalls) :
                /\ simCalls[c].ids = Ids(GroupRows(g0.rows, simCalls[c].K))
                /\ Len(simCalls[c].ids) > 0
                /\ \A d \in 1..Len(simCalls) :
                      simCalls[d].K = simCalls[c].K => d = c
                /\ BadShape(simCalls[c])
                      => /\ pc = "done"
                         /\ out.kind = "raised"
                         /\ c = Len(simCalls)
           /\ (pc = "done" /\ \A c \in 1..Len(simCalls) : ~BadShape(simCalls[c]))
                => Len(simCalls) = GroupCount(g0.rows)

\* C12 witness: a dataframe of two K-groups, one of them of two tiles, went
\* through Driver.stats with a tile_batch_size of 1 in two sim_batch calls
C12_Witness ==
    /\ pc = "done" /\ op = "Driver.stats"
    /\ args.tile_batch_size = 1 /\ args.model = GoodModel
    /\ Len(g0.rows) = 3 /\ GroupCount(g0.rows) = 2
    /\ Len(simCalls) = 2
    /\ \E c \in 1..2 : Len(simCalls[c].ids) = 2

====
